---------------------------- MODULE Spec2Model ----------------------------
(***************************************************************************)
(* A model of the Asymmetric Public Company Hunter: the asymmetry score    *)
(* engine (scoreFounderConviction, scoreAIDisruption, scoreWhiteSpace,     *)
(* scoreAsymmetry, calculateAsymmetryScore, rankCompanies) and the         *)
(* screening criteria the dashboard keeps beside it.                       *)
(*                                                                         *)
(* Number conventions.  TLC has integers only, so every JavaScript number  *)
(* is carried as an integer in a fixed unit:                               *)
(*   marketCap, cashPosition, currentTAM, futureTAM : millions of USD      *)
(*        (1_000_000_000 in the source is 1000 here)                       *)
(*   insiderBuying90d                                : USD                 *)
(*   insiderOwnership, tamMultiple                   : the number itself   *)
(*   grossMargin, revenueGrowth, debtToEquity        : hundredths          *)
(*        (0.3 in the source is 30 here, 60 is 6000)                       *)
(*   factor scores and the total                     : tenths              *)
(*        (score 4 is 40, score 0.5 is 5, total 7.3 is 73)                 *)
(* An optional field is a sequence of length at most one: << >> is an      *)
(* absent field (undefined), <<v>> a present one.                          *)
(***************************************************************************)
EXTENDS Integers, Sequences, FiniteSets, TLC

VARIABLES
    company,        \* the record handed to calculateAsymmetryScore
    scores,         \* << >> before the call, <<AsymmetryScore>> after it
    outcome,        \* "pending" before the call, then how the call completed
    SCORE_WEIGHTS,  \* the exported weight table (a mutable module object)
    companies,      \* the list handed to rankCompanies
    ranked,         \* << >> before the call, <<the returned array>> after it
    criteria,       \* the ScreeningCriteria held by the dashboard
    tickerCache,    \* sec-edgar: << >> is null, <<m>> the Map m (ticker -> CIK)
    cikCalls,       \* sec-edgar: each getCIK call's position and result
    fetchCount,     \* sec-edgar: fetches of the ticker list issued so far
    tickers,        \* yahoo-finance: the list handed to getQuotes
    quotePc,        \* yahoo-finance: where the getQuotes call stands
    batchStart,     \* yahoo-finance: the loop variable i
    requests,       \* yahoo-finance: per ticker, "none", "inflight", "quote", "null"
    requestCount,   \* yahoo-finance: getQuote requests issued per ticker
    results,        \* yahoo-finance: the key set of the results Map
    sortField,      \* CompanyTable: the sortField state
    sortDirection   \* CompanyTable: the sortDirection state

engineVars == <<company, scores, outcome, SCORE_WEIGHTS, companies, ranked, criteria>>
cikVars == <<tickerCache, cikCalls, fetchCount>>
quoteVars == <<tickers, quotePc, batchStart, requests, requestCount, results>>
tableVars == <<sortField, sortDirection>>

vars == <<engineVars, cikVars, quoteVars, tableVars>>

-----------------------------------------------------------------------------
(* Types (lib/types.ts) *)

FutureCategory ==
    { "intelligence-infrastructure", "robotics-autonomous", "synthetic-biology",
      "materials-simulation", "advanced-energy", "national-security-space",
      "other" }

\* A value of futureCategory outside the enumeration (reachable through an
\* untyped caller, JSON from storage, or a cast).
InvalidCategoryValue == "quantum-computing"

\* A value outside the enumeration that names a property every object
\* inherits.
InheritedCategoryValue == "constructor"

Opt(S) == { << >> } \cup { <<v>> : v \in S }

\* A Company with every optional field absent.
Company(ticker, category) ==
    [ ticker           |-> ticker,
      futureCategory   |-> category,
      marketCap        |-> << >>,
      priceChange30d   |-> << >>,
      revenueGrowth    |-> << >>,
      grossMargin      |-> << >>,
      cashPosition     |-> << >>,
      debtToEquity     |-> << >>,
      insiderOwnership |-> << >>,
      insiderBuying90d |-> << >>,
      founderActive    |-> << >>,
      currentTAM       |-> << >>,
      futureTAM        |-> << >>,
      tamMultiple      |-> << >>,
      scores           |-> << >> ]

-----------------------------------------------------------------------------
(* JavaScript helpers *)

\* x || d for a number-valued optional field: undefined and 0 are falsy.
OrElse(field, d) ==
    IF field = << >> THEN d ELSE IF field[1] = 0 THEN d ELSE field[1]

\* if (x) for a boolean-valued optional field.
Truthy(field) == IF field = << >> THEN FALSE ELSE field[1]

\* n.toFixed(1) and n.toFixed(0) of an integer-valued number.
toFixed1(n) == ToString(n) \o ".0"
toFixed0(n) == ToString(n)

\* factors.join('. ')
RECURSIVE join(_)
join(factors) ==
    IF Len(factors) = 0 THEN ""
    ELSE IF Len(factors) = 1 THEN factors[1]
    ELSE factors[1] \o ". " \o join(Tail(factors))

\* arr.includes(x) and arr.filter(c => c !== x)
includes(arr, x) == \E i \in 1..Len(arr) : arr[i] = x

without(arr, x) == SelectSeq(arr, LAMBDA c : c # x)

Min(a, b) == IF a < b THEN a ELSE b

\* a / b as an exact quotient; b = 0 is JavaScript's Infinity, -Infinity or NaN.
Quot(a, b) == [ num |-> a, den |-> b ]

\* q < p/r and q > p/r (r > 0) with JavaScript's comparison of non-finite
\* numbers: NaN compares false, Infinity is above and -Infinity below everything.
QuotLess(q, p, r) ==
    IF q.den = 0 THEN q.num < 0
    ELSE IF q.den > 0 THEN q.num * r < p * q.den
    ELSE q.num * r > p * q.den

QuotGreater(q, p, r) ==
    IF q.den = 0 THEN q.num > 0
    ELSE IF q.den > 0 THEN q.num * r > p * q.den
    ELSE q.num * r < p * q.den

\* A JavaScript number that may be NaN: tenths is meaningful when kind = "finite".
Finite(n) == [ kind |-> "finite", tenths |-> n ]
NaN == [ kind |-> "NaN", tenths |-> 0 ]
Infinity == [ kind |-> "Infinity", tenths |-> 0 ]

\* One step of a scorer: the points it adds (tenths), the factor strings it
\* pushes, and the divisors of the divisions it performs.  str tells whether
\* the step added a value that is not a number, which makes score a string.
Step(pts, fac, div) == [ pts |-> pts, fac |-> fac, div |-> div, str |-> FALSE ]

\* score += v for a function or an object v: the + concatenates, score is a
\* string from here on (later += of numbers append to it), and no factor is
\* pushed.
StringStep == [ pts |-> 0, fac |-> << >>, div |-> << >>, str |-> TRUE ]

\* The return statement of a scorer: Math.min(score, 10) and the joined factors
\* or the scorer's default rationale.  Math.min converts a string score to a
\* number; a string holding the text of a function or object converts to NaN.
Return(steps, default) ==
    LET RECURSIVE Sum(_)
        Sum(s) == IF s = << >> THEN 0 ELSE Head(s).pts + Sum(Tail(s))
        RECURSIVE Factors(_)
        Factors(s) == IF s = << >> THEN << >> ELSE Head(s).fac \o Factors(Tail(s))
        factors == Factors(steps)
    IN  [ score     |-> IF \E i \in 1..Len(steps) : steps[i].str THEN NaN
                        ELSE Finite(Min(Sum(steps), 100)),
          rationale |-> IF Len(factors) > 0 THEN join(factors) ELSE default ]

-----------------------------------------------------------------------------
(* scoreFounderConviction *)

\* ownershipStep with the thresholds inclusive (>= 30, >= 20, >= 10, >= 5).
ownershipStepInclusive(c) ==
    LET ownership == OrElse(c.insiderOwnership, 0)
        text(label) == <<label \o " insider ownership (" \o toFixed1(ownership) \o "%)">>
    IN  IF ownership >= 30 THEN Step(40, text("High"), << >>)
        ELSE IF ownership >= 20 THEN Step(30, text("Strong"), << >>)
        ELSE IF ownership >= 10 THEN Step(20, text("Moderate"), << >>)
        ELSE IF ownership >= 5 THEN Step(10, text("Some"), << >>)
        ELSE Step(0, text("Low"), << >>)

ownershipStep(c) ==
    LET ownership == OrElse(c.insiderOwnership, 0)
        text(label) == <<label \o " insider ownership (" \o toFixed1(ownership) \o "%)">>
    IN  IF ownership > 30 THEN Step(40, text("High"), << >>)
        ELSE IF ownership > 20 THEN Step(30, text("Strong"), << >>)
        ELSE IF ownership > 10 THEN Step(20, text("Moderate"), << >>)
        ELSE IF ownership > 5 THEN Step(10, text("Some"), << >>)
        ELSE Step(0, text("Low"), << >>)

\* buyingStep with net selling costing a point (score -= 1), as a scorer that
\* penalised the warning would.
buyingStepPenalty(c) ==
    LET buying == OrElse(c.insiderBuying90d, 0)
    IN  IF buying > 1000000 THEN Step(30, <<"Significant insider buying >$1M in 90d">>, << >>)
        ELSE IF buying > 100000 THEN Step(20, <<"Notable insider buying in 90d">>, << >>)
        ELSE IF buying > 0 THEN Step(10, <<"Some insider buying in 90d">>, << >>)
        ELSE IF buying < -100000 THEN Step(-10, <<"Warning: Insider selling detected">>, << >>)
        ELSE Step(0, << >>, << >>)

buyingStep(c) ==
    LET buying == OrElse(c.insiderBuying90d, 0)
    IN  IF buying > 1000000 THEN Step(30, <<"Significant insider buying >$1M in 90d">>, << >>)
        ELSE IF buying > 100000 THEN Step(20, <<"Notable insider buying in 90d">>, << >>)
        ELSE IF buying > 0 THEN Step(10, <<"Some insider buying in 90d">>, << >>)
        ELSE IF buying < -100000 THEN Step(0, <<"Warning: Insider selling detected">>, << >>)
        ELSE Step(0, << >>, << >>)

\* founderStep worth 4 points, which lets the raw sum reach 11.
founderStepFour(c) ==
    IF Truthy(c.founderActive) THEN Step(40, <<"Founder-led company">>, << >>)
    ELSE Step(0, << >>, << >>)

founderStep(c) ==
    IF Truthy(c.founderActive) THEN Step(30, <<"Founder-led company">>, << >>)
    ELSE Step(0, << >>, << >>)

scoreFounderConviction(c) ==
    Return(<<ownershipStep(c), buyingStep(c), founderStep(c)>>, "Insufficient data")

-----------------------------------------------------------------------------
(* scoreAIDisruption *)

\* The table as the architecture document prints it: materials-simulation 2.
categoryScoresDocumented ==
    [ cat \in FutureCategory |->
        CASE cat = "intelligence-infrastructure" -> 30
          [] cat = "robotics-autonomous"         -> 30
          [] cat = "synthetic-biology"           -> 20
          [] cat = "materials-simulation"        -> 20
          [] cat = "advanced-energy"             -> 20
          [] cat = "national-security-space"     -> 20
          [] cat = "other"                       -> 0 ]

\* The categoryScores table, in tenths.
categoryScores ==
    [ cat \in FutureCategory |->
        CASE cat = "intelligence-infrastructure" -> 30
          [] cat = "robotics-autonomous"         -> 30
          [] cat = "synthetic-biology"           -> 20
          [] cat = "materials-simulation"        -> 30
          [] cat = "advanced-energy"             -> 20
          [] cat = "national-security-space"     -> 20
          [] cat = "other"                       -> 0 ]

\* The keys every object literal inherits from Object.prototype: reading one
\* of them from categoryScores gives a function (an object for __proto__).
ObjectPrototypeKeys ==
    { "constructor", "toString", "toLocaleString", "valueOf", "hasOwnProperty",
      "isPrototypeOf", "propertyIsEnumerable", "__proto__", "__defineGetter__",
      "__defineSetter__", "__lookupGetter__", "__lookupSetter__" }

\* categoryScores[company.futureCategory] || 0.  An own key reads its number.
\* An inherited key reads a function or object: it is truthy, so || keeps it,
\* score += categoryScore makes score a string, and categoryScore > 0 compares
\* NaN and is false.  Any other key reads undefined, which || turns into 0.
categoryStep(c) ==
    IF c.futureCategory \in DOMAIN categoryScores
    THEN LET categoryScore == categoryScores[c.futureCategory]
         IN  IF categoryScore > 0
             THEN Step(categoryScore,
                       <<"Core AI-adjacent sector (" \o c.futureCategory \o ")">>,
                       << >>)
             ELSE Step(categoryScore, << >>, << >>)
    ELSE IF c.futureCategory \in ObjectPrototypeKeys THEN StringStep
    ELSE Step(0, << >>, << >>)

tamMultipleStep(c) ==
    LET tamMultiple == OrElse(c.tamMultiple, 1)
        text(label) == <<label \o " (" \o toFixed0(tamMultiple) \o "x)">>
    IN  IF tamMultiple > 100 THEN Step(40, text("Extreme TAM expansion potential"), << >>)
        ELSE IF tamMultiple > 50 THEN Step(30, text("Large TAM expansion potential"), << >>)
        ELSE IF tamMultiple > 20 THEN Step(20, text("Strong TAM expansion potential"), << >>)
        ELSE IF tamMultiple > 10 THEN Step(10, text("Moderate TAM expansion"), << >>)
        ELSE Step(0, << >>, << >>)

enablementStep(c) ==
    IF c.futureCategory \in
         {"intelligence-infrastructure", "robotics-autonomous", "materials-simulation"}
    THEN Step(20, <<"Direct AI compute/automation beneficiary">>, << >>)
    ELSE IF c.futureCategory \in {"synthetic-biology", "advanced-energy"}
    THEN Step(10, <<"AI-enabled R&D acceleration">>, << >>)
    ELSE Step(0, << >>, << >>)

scoreAIDisruption(c) ==
    Return(<<categoryStep(c), tamMultipleStep(c), enablementStep(c)>>,
           "Limited AI disruption potential")

-----------------------------------------------------------------------------
(* scoreWhiteSpace *)

\* currentTAMStep without the else branch: an absent or zero currentTAM adds
\* nothing.
currentTAMStepNoEmerging(c) ==
    LET currentTAM == OrElse(c.currentTAM, 0)
    IN  IF currentTAM > 0
        THEN IF currentTAM < 1000 THEN Step(40, <<"Very small current TAM (<$1B)">>, << >>)
             ELSE IF currentTAM < 5000 THEN Step(30, <<"Small current TAM (<$5B)">>, << >>)
             ELSE IF currentTAM < 10000 THEN Step(20, <<"Moderate current TAM (<$10B)">>, << >>)
             ELSE Step(10, <<"Established market">>, << >>)
        ELSE Step(0, << >>, << >>)

currentTAMStep(c) ==
    LET currentTAM == OrElse(c.currentTAM, 0)
    IN  IF currentTAM > 0
        THEN IF currentTAM < 1000 THEN Step(40, <<"Very small current TAM (<$1B)">>, << >>)
             ELSE IF currentTAM < 5000 THEN Step(30, <<"Small current TAM (<$5B)">>, << >>)
             ELSE IF currentTAM < 10000 THEN Step(20, <<"Moderate current TAM (<$10B)">>, << >>)
             ELSE Step(10, <<"Established market">>, << >>)
        ELSE Step(30, <<"Undefined/emerging market">>, << >>)

\* captureStep without the guard futureTAM > 0 && marketCap > 0: the ratio is
\* computed for every record.
captureStepUnguarded(c) ==
    LET futureTAM == OrElse(c.futureTAM, 0)
        marketCap == OrElse(c.marketCap, 0)
        captureRatio == Quot(marketCap, futureTAM)
    IN  IF QuotLess(captureRatio, 1, 1000)
        THEN Step(30, <<"Market cap is <0.1% of future TAM">>, <<futureTAM>>)
        ELSE IF QuotLess(captureRatio, 1, 100)
        THEN Step(20, <<"Market cap is <1% of future TAM">>, <<futureTAM>>)
        ELSE IF QuotLess(captureRatio, 5, 100)
        THEN Step(10, <<"Significant room for market capture">>, <<futureTAM>>)
        ELSE Step(0, << >>, <<futureTAM>>)

captureStep(c) ==
    LET futureTAM == OrElse(c.futureTAM, 0)
        marketCap == OrElse(c.marketCap, 0)
        captureRatio == Quot(marketCap, futureTAM)
    IN  IF futureTAM > 0 /\ marketCap > 0
        THEN IF QuotLess(captureRatio, 1, 1000)
             THEN Step(30, <<"Market cap is <0.1% of future TAM">>, <<futureTAM>>)
             ELSE IF QuotLess(captureRatio, 1, 100)
             THEN Step(20, <<"Market cap is <1% of future TAM">>, <<futureTAM>>)
             ELSE IF QuotLess(captureRatio, 5, 100)
             THEN Step(10, <<"Significant room for market capture">>, <<futureTAM>>)
             ELSE Step(0, << >>, <<futureTAM>>)
        ELSE Step(0, << >>, << >>)

\* smallCapStep guarded by presence only (company.marketCap !== undefined).
smallCapStepPresent(c) ==
    IF c.marketCap # << >>
    THEN IF c.marketCap[1] < 1000
         THEN Step(20, <<"Small cap (<$1B) - less institutional attention">>, << >>)
         ELSE IF c.marketCap[1] < 3000
         THEN Step(10, <<"Small-mid cap - emerging from obscurity">>, << >>)
         ELSE Step(0, << >>, << >>)
    ELSE Step(0, << >>, << >>)

smallCapStep(c) ==
    LET marketCap == OrElse(c.marketCap, 0)
    IN  IF marketCap > 0
        THEN IF marketCap < 1000
             THEN Step(20, <<"Small cap (<$1B) - less institutional attention">>, << >>)
             ELSE IF marketCap < 3000
             THEN Step(10, <<"Small-mid cap - emerging from obscurity">>, << >>)
             ELSE Step(0, << >>, << >>)
        ELSE Step(0, << >>, << >>)

scoreWhiteSpace(c) ==
    Return(<<currentTAMStep(c), captureStep(c), smallCapStep(c)>>,
           "Market positioning unclear")

-----------------------------------------------------------------------------
(* scoreAsymmetry *)

\* potentialStep without the 10% capture assumption: the multiple is
\* futureTAM / marketCap.
potentialStepFullCapture(c) ==
    LET futureTAM == OrElse(c.futureTAM, 0)
        marketCap == OrElse(c.marketCap, 0)
        potentialMultiple == Quot(futureTAM, marketCap)
    IN  IF futureTAM > 0 /\ marketCap > 0
        THEN IF QuotGreater(potentialMultiple, 100, 1)
             THEN Step(40, <<"100x+ potential at 10% market capture">>, <<marketCap>>)
             ELSE IF QuotGreater(potentialMultiple, 50, 1)
             THEN Step(30, <<"50x+ potential at 10% market capture">>, <<marketCap>>)
             ELSE IF QuotGreater(potentialMultiple, 20, 1)
             THEN Step(20, <<"20x+ potential at 10% market capture">>, <<marketCap>>)
             ELSE IF QuotGreater(potentialMultiple, 10, 1)
             THEN Step(10, <<"10x+ potential">>, <<marketCap>>)
             ELSE Step(0, << >>, <<marketCap>>)
        ELSE Step(0, << >>, << >>)

\* potentialValue = futureTAM * 0.1; potentialMultiple = potentialValue / marketCap,
\* kept exact as futureTAM / (10 * marketCap).
potentialStep(c) ==
    LET futureTAM == OrElse(c.futureTAM, 0)
        marketCap == OrElse(c.marketCap, 0)
        potentialMultiple == Quot(futureTAM, 10 * marketCap)
    IN  IF futureTAM > 0 /\ marketCap > 0
        THEN IF QuotGreater(potentialMultiple, 100, 1)
             THEN Step(40, <<"100x+ potential at 10% market capture">>, <<marketCap>>)
             ELSE IF QuotGreater(potentialMultiple, 50, 1)
             THEN Step(30, <<"50x+ potential at 10% market capture">>, <<marketCap>>)
             ELSE IF QuotGreater(potentialMultiple, 20, 1)
             THEN Step(20, <<"20x+ potential at 10% market capture">>, <<marketCap>>)
             ELSE IF QuotGreater(potentialMultiple, 10, 1)
             THEN Step(10, <<"10x+ potential">>, <<marketCap>>)
             ELSE Step(0, << >>, <<marketCap>>)
        ELSE Step(0, << >>, << >>)

\* cashPosition > marketCap * 0.2 is 5 * cashPosition > marketCap, and
\* cashPosition > marketCap * 0.1 is 10 * cashPosition > marketCap.
cashStep(c) ==
    LET marketCap    == OrElse(c.marketCap, 0)
        cashPosition == OrElse(c.cashPosition, 0)
    IN  IF marketCap > 0 /\ 5 * cashPosition > marketCap
        THEN Step(20, <<"Strong cash position (>20% of market cap)">>, << >>)
        ELSE IF 10 * cashPosition > marketCap
        THEN Step(10, <<"Adequate cash runway">>, << >>)
        ELSE Step(0, << >>, << >>)

\* debtStep chained behind the cash rule: the debt rule runs only when the
\* cash rule added nothing.
debtStepAfterCash(c) ==
    LET debtToEquity == OrElse(c.debtToEquity, 0)
    IN  IF cashStep(c).pts > 0 THEN Step(0, << >>, << >>)
        ELSE IF debtToEquity < 30 THEN Step(10, <<"Low debt burden">>, << >>)
        ELSE IF debtToEquity > 150 THEN Step(0, <<"Warning: High debt levels">>, << >>)
        ELSE Step(0, << >>, << >>)

debtStep(c) ==
    LET debtToEquity == OrElse(c.debtToEquity, 0)
    IN  IF debtToEquity < 30 THEN Step(10, <<"Low debt burden">>, << >>)
        ELSE IF debtToEquity > 150 THEN Step(0, <<"Warning: High debt levels">>, << >>)
        ELSE Step(0, << >>, << >>)

\* grossMargin > 60 on the raw field; the text prints grossMargin * 100.
marginStep(c) ==
    LET grossMargin == OrElse(c.grossMargin, 0)
    IN  IF grossMargin > 6000
        THEN Step(10, <<"High gross margins (" \o toFixed0(grossMargin) \o "%)">>, << >>)
        ELSE Step(0, << >>, << >>)

growthStep(c) ==
    LET revenueGrowth == OrElse(c.revenueGrowth, 0)
    IN  IF revenueGrowth > 3000
        THEN Step(10, <<"Strong revenue growth (" \o toFixed0(revenueGrowth) \o "%)">>, << >>)
        ELSE IF revenueGrowth > 1500 THEN Step(5, <<"Solid revenue growth">>, << >>)
        ELSE Step(0, << >>, << >>)

scoreAsymmetry(c) ==
    Return(<<potentialStep(c), cashStep(c), debtStep(c), marginStep(c), growthStep(c)>>,
           "Risk/reward profile unclear")

-----------------------------------------------------------------------------
(* calculateAsymmetryScore *)

\* The shipped weight table (lib/constants.ts): every weight 1.0.
DefaultWeights ==
    [ founderConviction |-> 1, aiDisruption |-> 1, whiteSpace |-> 1, asymmetry |-> 1 ]

\* MathRound with Math.floor in place of Math.round.
MathFloor(q) ==
    IF q.den = 0 THEN (IF q.num = 0 THEN NaN ELSE Infinity)
    ELSE Finite(q.num \div q.den)

\* Math.round(q * 10) / 10 of an exact quotient q (already in tenths):
\* Math.round is floor(x + 0.5); 0/0 is NaN and stays NaN, x/0 is Infinity.
\* The divisor is a sum of non-negative weights, so it is never negative.
MathRound(q) ==
    IF q.den = 0 THEN (IF q.num = 0 THEN NaN ELSE Infinity)
    ELSE Finite((2 * q.num + q.den) \div (2 * q.den))

weightSum(w) == w.founderConviction + w.aiDisruption + w.whiteSpace + w.asymmetry

calculateAsymmetryScore(c) ==
    LET founderResult    == scoreFounderConviction(c)
        aiResult         == scoreAIDisruption(c)
        whiteSpaceResult == scoreWhiteSpace(c)
        asymmetryResult  == scoreAsymmetry(c)
        factorResults == <<founderResult, aiResult, whiteSpaceResult, asymmetryResult>>
        total == Quot(founderResult.score.tenths * SCORE_WEIGHTS.founderConviction
                        + aiResult.score.tenths * SCORE_WEIGHTS.aiDisruption
                        + whiteSpaceResult.score.tenths * SCORE_WEIGHTS.whiteSpace
                        + asymmetryResult.score.tenths * SCORE_WEIGHTS.asymmetry,
                      weightSum(SCORE_WEIGHTS))
    IN  [ founderConviction |-> founderResult.score,
          aiDisruption      |-> aiResult.score,
          whiteSpace        |-> whiteSpaceResult.score,
          asymmetry         |-> asymmetryResult.score,
          total             |-> IF \E i \in 1..4 : factorResults[i].score.kind = "NaN"
                                THEN NaN ELSE MathRound(total),
          rationale         |->
              [ founderConviction |-> founderResult.rationale,
                aiDisruption      |-> aiResult.rationale,
                whiteSpace        |-> whiteSpaceResult.rationale,
                asymmetry         |-> asymmetryResult.rationale ] ]

\* The divisor of every division calculateAsymmetryScore performs for c, in the
\* order performed: captureRatio, potentialMultiple, the weighted average.
divisors(c) ==
    captureStep(c).div \o potentialStep(c).div \o <<weightSum(SCORE_WEIGHTS)>>

-----------------------------------------------------------------------------
(* Input records *)

OwnershipValues == {-5, 0, 5, 6, 10, 11, 20, 21, 30, 31, 35, 100}
BuyingValues ==
    {-2000000, -100001, -100000, 0, 1, 100000, 100001, 1000000, 1000001, 2000000}
TamMultipleValues == {-1, 0, 1, 10, 11, 20, 21, 50, 51, 100, 101, 120}
CurrentTAMValues == {-1, 0, 500, 1000, 4999, 5000, 9999, 10000, 20000}
FutureTAMValues == {-1, 0, 1000, 50000, 1000000}
MarketCapValues == {-1, 0, 1, 50, 200, 500, 999, 1000, 2500, 2999, 3000, 20000}
CashValues == {-1, 0, 10, 20, 21, 40, 41, 100, 5000}
DebtValues == {-10, 0, 29, 30, 31, 150, 151, 300}
MarginValues == {-100, 0, 70, 6000, 6100}
GrowthValues == {-500, 0, 40, 1500, 1600, 3000, 3100}

Categories == FutureCategory \cup {InvalidCategoryValue, InheritedCategoryValue}

\* Records that vary the fields one scorer reads, every other field absent.
FounderInputs ==
    { [ Company("TEST", "other") EXCEPT
          !.insiderOwnership = o, !.insiderBuying90d = b, !.founderActive = f ] :
        o \in Opt(OwnershipValues), b \in Opt(BuyingValues), f \in Opt(BOOLEAN) }

AIInputs ==
    { [ Company("TEST", cat) EXCEPT !.tamMultiple = t ] :
        cat \in Categories, t \in Opt(TamMultipleValues) }

WhiteSpaceInputs ==
    { [ Company("TEST", "other") EXCEPT
          !.currentTAM = ct, !.futureTAM = ft, !.marketCap = mc ] :
        ct \in Opt(CurrentTAMValues), ft \in Opt(FutureTAMValues),
        mc \in Opt(MarketCapValues) }

UpsideInputs ==
    { [ Company("TEST", "other") EXCEPT
          !.futureTAM = ft, !.marketCap = mc, !.cashPosition = cash ] :
        ft \in Opt(FutureTAMValues), mc \in Opt(MarketCapValues),
        cash \in Opt(CashValues) }

QualityInputs ==
    { [ Company("TEST", "other") EXCEPT
          !.marketCap = mc, !.cashPosition = cash, !.debtToEquity = d,
          !.grossMargin = gm, !.revenueGrowth = rg ] :
        mc \in {<< >>, <<200>>}, cash \in {<< >>, <<21>>, <<41>>},
        d \in Opt(DebtValues), gm \in Opt(MarginValues), rg \in Opt(GrowthValues) }

\* Records that vary every field at once, between absent and a scoring value.
MixedInputs ==
    { [ Company("TEST", cat) EXCEPT
          !.insiderOwnership = o, !.insiderBuying90d = b, !.founderActive = f,
          !.tamMultiple = t, !.currentTAM = ct, !.futureTAM = ft, !.marketCap = mc,
          !.cashPosition = cash, !.debtToEquity = d, !.grossMargin = gm,
          !.revenueGrowth = rg ] :
        cat \in {"intelligence-infrastructure", "synthetic-biology", "other"},
        o \in {<< >>, <<35>>}, b \in {<< >>, <<2000000>>}, f \in {<< >>, <<TRUE>>},
        t \in {<< >>, <<120>>}, ct \in {<< >>, <<500>>}, ft \in {<< >>, <<50000>>},
        mc \in {<< >>, <<200>>}, cash \in {<< >>, <<41>>}, d \in {<< >>, <<200>>},
        gm \in {<< >>, <<6100>>}, rg \in {<< >>, <<1600>>, <<3100>>} }

\* Records that carry a precomputed tamMultiple, the two TAM amounts it is
\* documented to be the quotient of, both, or neither.
TamInputs ==
    { [ Company("TEST", cat) EXCEPT
          !.tamMultiple = t, !.currentTAM = ct, !.futureTAM = ft ] :
        cat \in Categories, t \in {<< >>, <<0>>, <<11>>, <<100>>, <<120>>},
        ct \in {<< >>, <<0>>, <<500>>}, ft \in {<< >>, <<5500>>, <<50000>>} }

ScoreInputs ==
    FounderInputs \cup AIInputs \cup WhiteSpaceInputs \cup UpsideInputs
        \cup QualityInputs \cup MixedInputs \cup TamInputs

-----------------------------------------------------------------------------
(* The state of each module before anything has called it *)

\* The getCIK calls a process makes.
MaxCalls == 3
CallIds == 1..MaxCalls

\* lib/types.ts, lib/constants.ts and the scoring engine hold no call in
\* progress.
EngineIdle ==
    /\ company = Company("TEST", "other")
    /\ scores = << >>
    /\ outcome = "pending"
    /\ SCORE_WEIGHTS = DefaultWeights
    /\ companies = << >>
    /\ ranked = << >>

\* sec-edgar.ts after module load: let tickerCache = null, no getCIK call made.
CikIdle ==
    /\ tickerCache = << >>
    /\ cikCalls = [ c \in CallIds |->
                      [ pc |-> "idle", ticker |-> "", result |-> << >>, load |-> "none" ] ]
    /\ fetchCount = 0

\* yahoo-finance.ts with no getQuotes call made.
QuotesIdle ==
    /\ tickers = << >>
    /\ quotePc = "idle"
    /\ batchStart = 0
    /\ requests = [ t \in {} |-> "none" ]
    /\ requestCount = [ t \in {} |-> 0 ]
    /\ results = {}

\* CompanyTable as mounted: useState('scoreTotal'), useState('desc').
TableMounted ==
    /\ sortField = "scoreTotal"
    /\ sortDirection = "desc"

-----------------------------------------------------------------------------
(* The scoring engine applied to one record *)

NoCriteria ==
    [ maxMarketCap |-> << >>, minMarketCap |-> << >>, categories |-> << >>,
      minInsiderOwnership |-> << >>, minTamMultiple |-> << >>,
      minAsymmetryScore |-> << >>, excludeTickers |-> << >> ]

Init ==
    /\ company \in ScoreInputs
    /\ scores = << >>
    /\ outcome = "pending"
    /\ SCORE_WEIGHTS = DefaultWeights
    /\ companies = << >>
    /\ ranked = << >>
    /\ criteria = NoCriteria
    /\ CikIdle /\ QuotesIdle /\ TableMounted

\* A caller invokes calculateAsymmetryScore(company); the function has no throw
\* statement and no call that can throw on a Company, so it returns.
Calculate ==
    /\ outcome = "pending"
    /\ scores' = <<calculateAsymmetryScore(company)>>
    /\ outcome' = "returned"
    /\ UNCHANGED <<company, SCORE_WEIGHTS, companies, ranked, criteria>>
    /\ UNCHANGED <<cikVars, quoteVars, tableVars>>

Next == Calculate

Spec == Init /\ [][Next]_vars

-----------------------------------------------------------------------------
(* The scoring engine under other weight tables *)

\* The largest weight tried for any factor.
MaxWeight == 2

WeightTables ==
    [ founderConviction : 0..MaxWeight, aiDisruption : 0..MaxWeight,
      whiteSpace : 0..MaxWeight, asymmetry : 0..MaxWeight ]

InitWeights ==
    /\ company \in AIInputs
    /\ scores = << >>
    /\ outcome = "pending"
    /\ SCORE_WEIGHTS \in WeightTables
    /\ companies = << >>
    /\ ranked = << >>
    /\ criteria = NoCriteria
    /\ CikIdle /\ QuotesIdle /\ TableMounted

SpecWeights == InitWeights /\ [][Next]_vars

-----------------------------------------------------------------------------
(* rankCompanies *)

\* withScores without the spread of the company's own fields.
withScoresOnly(c) ==
    [ Company(c.ticker, c.futureCategory) EXCEPT
        !.scores = <<calculateAsymmetryScore(c)>> ]

\* withScores that keeps a scores value the record already carries
\* (company.scores ?? calculateAsymmetryScore(company)).
withScoresCached(c) ==
    IF c.scores # << >> THEN c
    ELSE [ c EXCEPT !.scores = <<calculateAsymmetryScore(c)>> ]

\* The map callback: { ...company, scores: calculateAsymmetryScore(company) }.
withScores(c) == [ c EXCEPT !.scores = <<calculateAsymmetryScore(c)>> ]

\* (x.scores?.total || 0): an absent scores, a NaN total and 0 all give 0.
totalOrZero(c) ==
    IF c.scores = << >> THEN 0
    ELSE IF c.scores[1].total.kind = "NaN" THEN 0
    ELSE c.scores[1].total.tenths

\* The comparator handed to sort.
compare(a, b) == totalOrZero(b) - totalOrZero(a)

\* x put into an array already in comparator order, behind every element that
\* does not compare above it.
RECURSIVE insert(_, _)
insert(sorted, x) ==
    IF sorted = << >> THEN <<x>>
    ELSE IF compare(x, Head(sorted)) < 0 THEN <<x>> \o sorted
    ELSE <<Head(sorted)>> \o insert(Tail(sorted), x)

\* Array.prototype.sort with a comparator: a stable sort (ECMAScript 2019).
RECURSIVE sort(_)
sort(arr) ==
    IF arr = << >> THEN << >>
    ELSE insert(sort(SubSeq(arr, 1, Len(arr) - 1)), arr[Len(arr)])

\* rankCompanies with a category filter that tests membership in the
\* categories list even when the list is empty.
rankCompaniesByCategory(list) ==
    LET kept == IF criteria.categories = << >> THEN list
                ELSE SelectSeq(list,
                        LAMBDA c : includes(criteria.categories[1], c.futureCategory))
    IN  sort([ i \in 1..Len(kept) |-> withScores(kept[i]) ])

rankCompanies(list) ==
    sort([ i \in 1..Len(list) |-> withScores(list[i]) ])

-----------------------------------------------------------------------------
(* Screening criteria and the ranked list *)

\* lib/constants.ts: the tickers the screener is documented to exclude.
EXCLUDED_TICKERS ==
    << "NVDA", "AAPL", "MSFT", "GOOGL", "GOOG", "AMZN", "META", "TSLA",
       "AMD", "INTC", "AVGO", "QCOM", "TXN", "MU" >>

\* The criteria with every threshold at its documented default.
DefaultCriteria ==
    [ NoCriteria EXCEPT
        !.maxMarketCap = <<10000>>, !.minInsiderOwnership = <<5>>,
        !.minTamMultiple = <<10>>, !.minAsymmetryScore = <<60>>,
        !.excludeTickers = <<EXCLUDED_TICKERS>> ]

\* A well-placed company: total 8.0.
Strong(ticker) ==
    [ Company(ticker, "intelligence-infrastructure") EXCEPT
        !.insiderOwnership = <<35>>, !.insiderBuying90d = <<2000000>>,
        !.founderActive = <<TRUE>>, !.tamMultiple = <<120>>,
        !.currentTAM = <<500>>, !.futureTAM = <<50000>>, !.marketCap = <<200>>,
        !.cashPosition = <<41>> ]

\* An AsymmetryScore computed earlier, from inputs that have changed since.
StaleScores ==
    [ founderConviction |-> Finite(10), aiDisruption |-> Finite(10),
      whiteSpace |-> Finite(10), asymmetry |-> Finite(10), total |-> Finite(10),
      rationale |-> [ founderConviction |-> "stale", aiDisruption |-> "stale",
                      whiteSpace |-> "stale", asymmetry |-> "stale" ] ]

\* The records the aggregation layer may supply.
CompanyPool ==
    { Strong("ZZZ"),
      [ Strong("OLD") EXCEPT !.scores = <<StaleScores>> ],
      Strong("AAA"),
      [ Strong("NVDA") EXCEPT !.founderActive = << >> ],
      [ Strong("RBT") EXCEPT !.futureCategory = "robotics-autonomous" ],
      [ Strong("BIG") EXCEPT !.marketCap = <<20000>> ],
      [ Strong("LOW") EXCEPT !.insiderOwnership = <<2>>, !.tamMultiple = <<5>>,
                             !.futureCategory = "other" ],
      [ Company("MMM", "synthetic-biology") EXCEPT
          !.insiderOwnership = <<11>>, !.tamMultiple = <<21>>,
          !.marketCap = <<2500>> ] }

\* The longest list handed to rankCompanies.
MaxCompanies == 3

\* The category buttons pressed while a list is on screen.
ToggledCategories == {"intelligence-infrastructure", "synthetic-biology"}

InitRank ==
    /\ company = Company("TEST", "other")
    /\ scores = << >>
    /\ outcome = "pending"
    /\ SCORE_WEIGHTS = DefaultWeights
    /\ companies = << >>
    /\ ranked = << >>
    /\ criteria \in {NoCriteria, DefaultCriteria}
    /\ CikIdle /\ QuotesIdle /\ TableMounted

\* The aggregation layer appends a record to the list to be ranked.
AddCompany(c) ==
    /\ ranked = << >>
    /\ Len(companies) < MaxCompanies
    /\ companies' = Append(companies, c)
    /\ UNCHANGED <<company, scores, outcome, SCORE_WEIGHTS, ranked, criteria>>
    /\ UNCHANGED <<cikVars, quoteVars, tableVars>>

\* Rank with the scores written into the caller's records and the caller's
\* array sorted in place (companies.forEach(c => c.scores = ...); companies.sort).
RankInPlace ==
    /\ ranked = << >>
    /\ companies' = rankCompanies(companies)
    /\ ranked' = <<companies'>>
    /\ UNCHANGED <<company, scores, outcome, SCORE_WEIGHTS, criteria>>
    /\ UNCHANGED <<cikVars, quoteVars, tableVars>>

\* rankCompanies(companies): it takes the list only, reads no criteria, and
\* returns a new array: map builds a new array of new objects and sort orders
\* that array, so the caller's array and records are not written.
Rank ==
    /\ ranked = << >>
    /\ ranked' = <<rankCompanies(companies)>>
    /\ UNCHANGED <<company, scores, outcome, SCORE_WEIGHTS, companies, criteria>>
    /\ UNCHANGED <<cikVars, quoteVars, tableVars>>

\* FilterPanel's handleCategoryToggle; onChange stores the new criteria.
handleCategoryToggle(category) ==
    LET current == IF criteria.categories = << >> THEN << >> ELSE criteria.categories[1]
        newCategories == IF includes(current, category)
                         THEN without(current, category)
                         ELSE Append(current, category)
    IN  /\ criteria' = [ criteria EXCEPT !.categories = <<newCategories>> ]
        /\ UNCHANGED <<company, scores, outcome, SCORE_WEIGHTS, companies, ranked>>
        /\ UNCHANGED <<cikVars, quoteVars, tableVars>>

NextRank ==
    \/ \E c \in CompanyPool : AddCompany(c)
    \/ Rank
    \/ \E category \in ToggledCategories : handleCategoryToggle(category)

SpecRank == InitRank /\ [][NextRank]_vars

-----------------------------------------------------------------------------
(* FilterPanel *)

\* lib/constants.ts: the screening defaults (market cap in millions of USD,
\* the score in tenths).
DEFAULT_MAX_MARKET_CAP == 10000
DEFAULT_MIN_INSIDER_OWNERSHIP == 5
DEFAULT_MIN_TAM_MULTIPLE == 10
DEFAULT_MIN_ASYMMETRY_SCORE == 60

\* What the panel renders beside each slider and feeds to it as value:
\* criteria.x || DEFAULT_X.
shownMaxMarketCap == OrElse(criteria.maxMarketCap, DEFAULT_MAX_MARKET_CAP)
shownMinInsiderOwnership ==
    OrElse(criteria.minInsiderOwnership, DEFAULT_MIN_INSIDER_OWNERSHIP)
shownMinTamMultiple == OrElse(criteria.minTamMultiple, DEFAULT_MIN_TAM_MULTIPLE)
shownMinAsymmetryScore ==
    OrElse(criteria.minAsymmetryScore, DEFAULT_MIN_ASYMMETRY_SCORE)

\* The category buttons: every key of CATEGORY_INFO but 'other'.
ButtonCategories == FutureCategory \ {"other"}

\* criteria.categories?.includes(key) ?? true, for the criteria crit.
isSelected(crit, key) ==
    IF crit.categories = << >> THEN TRUE ELSE includes(crit.categories[1], key)

\* The positions the sliders are dragged to (each within its min..max range).
MaxMarketCapStops == {100, 3000, 50000}
MinInsiderOwnershipStops == {0, 5, 50}
MinTamMultipleStops == {1, 10}
MinAsymmetryScoreStops == {0, 60, 100}

\* The sliders' onChange handlers: onChange({ ...criteria, x: Number(value) }).
changeMaxMarketCap(value) ==
    /\ criteria' = [ criteria EXCEPT !.maxMarketCap = <<value>> ]
    /\ UNCHANGED <<company, scores, outcome, SCORE_WEIGHTS, companies, ranked>>
    /\ UNCHANGED <<cikVars, quoteVars, tableVars>>

changeMinInsiderOwnership(value) ==
    /\ criteria' = [ criteria EXCEPT !.minInsiderOwnership = <<value>> ]
    /\ UNCHANGED <<company, scores, outcome, SCORE_WEIGHTS, companies, ranked>>
    /\ UNCHANGED <<cikVars, quoteVars, tableVars>>

changeMinTamMultiple(value) ==
    /\ criteria' = [ criteria EXCEPT !.minTamMultiple = <<value>> ]
    /\ UNCHANGED <<company, scores, outcome, SCORE_WEIGHTS, companies, ranked>>
    /\ UNCHANGED <<cikVars, quoteVars, tableVars>>

changeMinAsymmetryScore(value) ==
    /\ criteria' = [ criteria EXCEPT !.minAsymmetryScore = <<value>> ]
    /\ UNCHANGED <<company, scores, outcome, SCORE_WEIGHTS, companies, ranked>>
    /\ UNCHANGED <<cikVars, quoteVars, tableVars>>

\* The criteria the dashboard puts back when asked to reset: the handler is
\* the onReset prop, whose body belongs to the parent component.
ResetCriteria == {NoCriteria, DefaultCriteria}

\* The 'Reset all filters' button: onClick={onReset}.  FilterPanel does
\* nothing else on this click; the parent replaces the criteria it passes down.
onReset(reset) ==
    /\ criteria' = reset
    /\ UNCHANGED <<company, scores, outcome, SCORE_WEIGHTS, companies, ranked>>
    /\ UNCHANGED <<cikVars, quoteVars, tableVars>>

InitPanel ==
    /\ EngineIdle
    /\ criteria \in {NoCriteria, DefaultCriteria}
    /\ CikIdle /\ QuotesIdle /\ TableMounted

NextPanel ==
    \/ \E category \in ToggledCategories : handleCategoryToggle(category)
    \/ \E value \in MaxMarketCapStops : changeMaxMarketCap(value)
    \/ \E value \in MinInsiderOwnershipStops : changeMinInsiderOwnership(value)
    \/ \E value \in MinTamMultipleStops : changeMinTamMultiple(value)
    \/ \E value \in MinAsymmetryScoreStops : changeMinAsymmetryScore(value)
    \/ \E reset \in ResetCriteria : onReset(reset)

SpecPanel == InitPanel /\ [][NextPanel]_vars

-----------------------------------------------------------------------------
(* sec-edgar.ts: getCIK and loadTickerCache *)

\* The body of company_tickers.json, as response.json() returns it.
SecTickerList ==
    << [ ticker |-> "AAPL", cik_str |-> 320193 ],
       [ ticker |-> "msft", cik_str |-> 789019 ] >>

\* The tickers callers ask for.
QueryTickers == {"aapl", "MSFT", "NOPE"}

\* s.toUpperCase() on the strings the model uses.
toUpperCase(str) ==
    CASE str = "aapl" -> "AAPL"
      [] str = "msft" -> "MSFT"
      [] OTHER -> str

\* String(n).padStart(10, '0') of a non-negative integer.
padStart(n) ==
    LET RECURSIVE Digits(_)
        Digits(k) == IF k < 10 THEN 1 ELSE 1 + Digits(k \div 10)
        RECURSIVE Zeros(_)
        Zeros(k) == IF k <= 0 THEN "" ELSE "0" \o Zeros(k - 1)
    IN  Zeros(10 - Digits(n)) \o ToString(n)

\* new Map()
EmptyMap == [ t \in {} |-> "" ]

\* The Map the for-in loop builds from data: a later entry of the same ticker
\* overwrites an earlier one.
RECURSIVE buildMap(_, _)
buildMap(map, data) ==
    IF data = << >> THEN map
    ELSE LET entry == Head(data)
             key == toUpperCase(entry.ticker)
             cik == padStart(entry.cik_str)
         IN  buildMap([ t \in DOMAIN map \cup {key} |->
                          IF t = key THEN cik ELSE map[t] ],
                      Tail(data))

\* tickerCache?.get(ticker.toUpperCase()) || null; "null" stands for null.
lookup(cache, ticker) ==
    IF cache = << >> THEN "null"
    ELSE IF toUpperCase(ticker) \in DOMAIN cache[1]
         THEN cache[1][toUpperCase(ticker)]
         ELSE "null"

\* getCIK(ticker) up to its first suspension.  With tickerCache null it calls
\* loadTickerCache, which issues the fetch and suspends at await fetch(...);
\* otherwise it returns the lookup at once.  Nothing records that a load is
\* already in flight.
getCIK(c, ticker) ==
    /\ cikCalls[c].pc = "idle"
    /\ IF tickerCache = << >>
       THEN /\ cikCalls' = [ cikCalls EXCEPT ![c].pc = "fetching", ![c].ticker = ticker ]
            /\ fetchCount' = fetchCount + 1
       ELSE /\ cikCalls' = [ cikCalls EXCEPT ![c].pc = "done", ![c].ticker = ticker,
                                             ![c].result = <<lookup(tickerCache, ticker)>> ]
            /\ fetchCount' = fetchCount
    /\ UNCHANGED tickerCache
    /\ UNCHANGED <<engineVars, quoteVars, tableVars>>

\* loadTickerCache for call c from the point its fetch settles to its next
\* suspension.  When fetch resolved, the function calls response.json() and
\* suspends at that await.  When fetch rejected, the catch block replaces
\* tickerCache by an empty Map and the function returns; getCIK is resumed in
\* a later microtask.
loadTickerCacheFetched(c, resolved) ==
    /\ cikCalls[c].pc = "fetching"
    /\ IF resolved
       THEN /\ tickerCache' = tickerCache
            /\ cikCalls' = [ cikCalls EXCEPT ![c].pc = "parsing" ]
       ELSE /\ tickerCache' = <<EmptyMap>>
            /\ cikCalls' = [ cikCalls EXCEPT ![c].pc = "loaded", ![c].load = "fail" ]
    /\ UNCHANGED fetchCount
    /\ UNCHANGED <<engineVars, quoteVars, tableVars>>

\* loadTickerCache for call c from the point response.json() settles to its
\* return.  With the data (parsed) the try block replaces tickerCache by a new
\* Map and fills it from the list; when json() rejects, or the loop throws on
\* an entry after tickerCache = new Map(), the catch block replaces
\* tickerCache by an empty Map.  The block runs without suspension; getCIK is
\* resumed in a later microtask.
loadTickerCacheParsed(c, parsed) ==
    /\ cikCalls[c].pc = "parsing"
    /\ tickerCache' = IF parsed THEN <<buildMap(EmptyMap, SecTickerList)>>
                      ELSE <<EmptyMap>>
    /\ cikCalls' = [ cikCalls EXCEPT ![c].pc = "loaded",
                                     ![c].load = IF parsed THEN "ok" ELSE "fail" ]
    /\ UNCHANGED fetchCount
    /\ UNCHANGED <<engineVars, quoteVars, tableVars>>

\* getCIK for call c resumed after await loadTickerCache(): it returns the
\* lookup in tickerCache as it is now, whichever load assigned it last.
getCIKResumed(c) ==
    /\ cikCalls[c].pc = "loaded"
    /\ cikCalls' = [ cikCalls EXCEPT
                       ![c].pc = "done",
                       ![c].result = <<lookup(tickerCache, cikCalls[c].ticker)>> ]
    /\ UNCHANGED <<tickerCache, fetchCount>>
    /\ UNCHANGED <<engineVars, quoteVars, tableVars>>

InitCik ==
    /\ EngineIdle
    /\ criteria = NoCriteria
    /\ CikIdle /\ QuotesIdle /\ TableMounted

NextCik ==
    \/ \E c \in CallIds, ticker \in QueryTickers : getCIK(c, ticker)
    \/ \E c \in CallIds, resolved \in BOOLEAN : loadTickerCacheFetched(c, resolved)
    \/ \E c \in CallIds, parsed \in BOOLEAN : loadTickerCacheParsed(c, parsed)
    \/ \E c \in CallIds : getCIKResumed(c)

SpecCik == InitCik /\ [][NextCik]_vars

-----------------------------------------------------------------------------
(* yahoo-finance.ts: getQuotes *)

\* const batchSize = 5
batchSize == 5

\* The longest ticker list handed to getQuotes.
MaxTickers == 7

\* Lists of distinct tickers: "T1", "T2", ... up to each length.
TickerLists ==
    { [ k \in 1..n |-> "T" \o ToString(k) ] : n \in 0..MaxTickers }

\* tickers.slice(i) : the batch that runs to the end of the list.
batchToEnd(i) == SubSeq(tickers, i + 1, Len(tickers))

\* tickers.slice(i, i + batchSize)
batch(i) == SubSeq(tickers, i + 1, Min(i + batchSize, Len(tickers)))

\* The tickers of a batch.
members(b) == { b[k] : k \in 1..Len(b) }

\* The forEach of a batch that starts the Map afresh (results = new Map()
\* inside the loop).
collectAfresh(b) == { t \in members(b) : requests[t] = "quote" }

\* batch.forEach((ticker, idx) => { if (quote) results.set(ticker, quote) })
collect(b) == results \cup { t \in members(b) : requests[t] = "quote" }

\* batch.map(ticker => getQuote(ticker)): every getQuote of the batch runs to
\* its fetch, so the batch's requests are all issued in the same turn.
issue(b) ==
    /\ requests' = [ t \in DOMAIN requests |->
                       IF t \in members(b) THEN "inflight" ELSE requests[t] ]
    /\ requestCount' = [ t \in DOMAIN requestCount |->
                           IF t \in members(b) THEN requestCount[t] + 1
                           ELSE requestCount[t] ]

\* getQuotes(tickers) up to its first await: an empty list skips the loop and
\* returns; otherwise the first batch is issued and Promise.all awaited.
getQuotes ==
    /\ quotePc = "idle"
    /\ IF 0 < Len(tickers)
       THEN /\ issue(batch(0))
            /\ quotePc' = "awaiting"
       ELSE /\ quotePc' = "resolved"
            /\ UNCHANGED <<requests, requestCount>>
    /\ UNCHANGED <<tickers, batchStart, results>>
    /\ UNCHANGED <<engineVars, cikVars, tableVars>>

\* One getQuote settles: with a quote, or with null (response not ok, no
\* result, or anything thrown inside its try block).  It never rejects.
getQuote(ticker, found) ==
    /\ ticker \in DOMAIN requests
    /\ requests[ticker] = "inflight"
    /\ requests' = [ requests EXCEPT ![ticker] = IF found THEN "quote" ELSE "null" ]
    /\ UNCHANGED <<tickers, quotePc, batchStart, requestCount, results>>
    /\ UNCHANGED <<engineVars, cikVars, tableVars>>

\* Promise.all(promises) resolves once every getQuote of the batch has
\* settled; the forEach stores the non-null quotes; then either the delay is
\* started or the loop ends and results is returned.
promiseAll ==
    /\ quotePc = "awaiting"
    /\ \A t \in members(batch(batchStart)) : requests[t] \in {"quote", "null"}
    /\ results' = collect(batch(batchStart))
    /\ IF batchStart + batchSize < Len(tickers)
       THEN /\ quotePc' = "delay"
            /\ UNCHANGED batchStart
       ELSE /\ quotePc' = "resolved"
            /\ batchStart' = batchStart + batchSize
    /\ UNCHANGED <<tickers, requests, requestCount>>
    /\ UNCHANGED <<engineVars, cikVars, tableVars>>

\* The 200 ms timer fires: i += batchSize and the next batch is issued.
setTimeout ==
    /\ quotePc = "delay"
    /\ batchStart' = batchStart + batchSize
    /\ issue(batch(batchStart + batchSize))
    /\ quotePc' = "awaiting"
    /\ UNCHANGED <<tickers, results>>
    /\ UNCHANGED <<engineVars, cikVars, tableVars>>

InitQuotes ==
    /\ EngineIdle
    /\ criteria = NoCriteria
    /\ CikIdle /\ TableMounted
    /\ tickers \in TickerLists
    /\ quotePc = "idle"
    /\ batchStart = 0
    /\ requests = [ t \in members(tickers) |-> "none" ]
    /\ requestCount = [ t \in members(tickers) |-> 0 ]
    /\ results = {}

NextQuotes ==
    \/ getQuotes
    \/ \E t \in members(tickers), found \in BOOLEAN : getQuote(t, found)
    \/ promiseAll
    \/ setTimeout

SpecQuotes == InitQuotes /\ [][NextQuotes]_vars

\* The event loop runs every continuation that is ready, a timer that was set
\* fires, and a fetch that was issued settles (with a response or an error).
FairSpecQuotes ==
    /\ SpecQuotes
    /\ WF_vars(getQuotes)
    /\ WF_vars(promiseAll)
    /\ WF_vars(setTimeout)
    /\ WF_vars(\E t \in members(tickers), found \in BOOLEAN : getQuote(t, found))

-----------------------------------------------------------------------------
(* Claims about the scoring engine, checked under Spec *)

Scored == scores # << >>

\* Every optional field of c is absent and its category is one of the seven.
AllAbsent(c) ==
    /\ c.futureCategory \in FutureCategory
    /\ c = Company(c.ticker, c.futureCategory)

\* C1, as stated: for a record with every optional field absent, each of the
\* four scorers returns score 0 and its default rationale string.
C1_AllAbsentScoresZero ==
    (Scored /\ AllAbsent(company)) =>
        /\ scores[1].founderConviction = Finite(0)
        /\ scores[1].aiDisruption = Finite(0)
        /\ scores[1].whiteSpace = Finite(0)
        /\ scores[1].asymmetry = Finite(0)
        /\ scores[1].rationale.founderConviction = "Insufficient data"
        /\ scores[1].rationale.aiDisruption = "Limited AI disruption potential"
        /\ scores[1].rationale.whiteSpace = "Market positioning unclear"
        /\ scores[1].rationale.asymmetry = "Risk/reward profile unclear"

\* C1, amended: for a record with every optional field absent,
\* scoreFounderConviction returns 0 with "Low insider ownership (0.0%)",
\* scoreAIDisruption returns the category's base plus enablement points (5, 5,
\* 3, 5, 3, 2 for the six named categories) and returns 0 with "Limited AI
\* disruption potential" only for 'other', scoreWhiteSpace returns 3 with
\* "Undefined/emerging market", and scoreAsymmetry returns 1 with
\* "Low debt burden".
C1_AllAbsentScores ==
    (Scored /\ AllAbsent(company)) =>
        LET cat == company.futureCategory
            s == scores[1]
        IN  /\ s.founderConviction = Finite(0)
            /\ s.rationale.founderConviction = "Low insider ownership (0.0%)"
            /\ s.aiDisruption = Finite(
                 CASE cat = "intelligence-infrastructure" -> 50
                   [] cat = "robotics-autonomous"         -> 50
                   [] cat = "synthetic-biology"           -> 30
                   [] cat = "materials-simulation"        -> 50
                   [] cat = "advanced-energy"             -> 30
                   [] cat = "national-security-space"     -> 20
                   [] cat = "other"                       -> 0 )
            /\ (s.rationale.aiDisruption = "Limited AI disruption potential")
                  <=> (cat = "other")
            /\ s.whiteSpace = Finite(30)
            /\ s.rationale.whiteSpace = "Undefined/emerging market"
            /\ s.asymmetry = Finite(10)
            /\ s.rationale.asymmetry = "Low debt burden"

C1_Witness ==
    /\ Scored
    /\ AllAbsent(company)
    /\ company.futureCategory = "synthetic-biology"

\* A number in [0, 10].
InTen(n) == n.kind = "finite" /\ n.tenths \in 0..100

\* C2: for every record of one of the seven categories, whatever its numeric
\* fields hold (absent, zero, negative or large), the four factor scores and
\* the total returned by calculateAsymmetryScore lie in [0, 10].
C2_ScoresInRange ==
    (Scored /\ company.futureCategory \in FutureCategory) =>
        /\ InTen(scores[1].founderConviction)
        /\ InTen(scores[1].aiDisruption)
        /\ InTen(scores[1].whiteSpace)
        /\ InTen(scores[1].asymmetry)
        /\ InTen(scores[1].total)

\* A record with heavy net insider selling and the largest ownership has been
\* scored.
C2_Witness ==
    /\ Scored
    /\ company.insiderBuying90d = <<-2000000>>
    /\ company.insiderOwnership = <<100>>
    /\ company.founderActive = <<TRUE>>

\* The mean of four factor scores (sum in tenths) rounded to one decimal with
\* halves away from zero, computed by quotient and remainder.
RoundHalfAwayFromZero(sum, n) ==
    LET mag == IF sum < 0 THEN -sum ELSE sum
        q == mag \div n
        r == mag % n
        rounded == IF 2 * r >= n THEN q + 1 ELSE q
    IN  IF sum < 0 THEN -rounded ELSE rounded

\* C3: the total is the mean of the four factor scores (all weights 1.0)
\* rounded to one decimal place with halves away from zero, and rounding the
\* total again to one decimal leaves it unchanged.  (The mean of scores one of
\* which is NaN is NaN, and rounding NaN gives NaN.)
C3_TotalIsRoundedMean ==
    Scored =>
        LET s == scores[1]
            factors == <<s.founderConviction, s.aiDisruption, s.whiteSpace,
                         s.asymmetry>>
            sum == s.founderConviction.tenths + s.aiDisruption.tenths
                     + s.whiteSpace.tenths + s.asymmetry.tenths
        IN  IF \E i \in 1..4 : factors[i] = NaN
            THEN s.total = NaN
            ELSE /\ s.total = Finite(RoundHalfAwayFromZero(sum, 4))
                 /\ MathRound(Quot(s.total.tenths, 1)) = s.total

\* The mean falls exactly halfway between two tenths (1.25 -> 1.3).
C3_Witness ==
    /\ Scored
    /\ LET s == scores[1]
       IN  (s.founderConviction.tenths + s.aiDisruption.tenths
              + s.whiteSpace.tenths + s.asymmetry.tenths) % 4 = 2

\* C9, as stated: a record whose futureCategory is not one of the seven values
\* is signalled as InvalidCategory and is never given a score.
C9_InvalidCategorySignalled ==
    (outcome # "pending" /\ company.futureCategory \notin FutureCategory) =>
        /\ outcome = "InvalidCategory"
        /\ scores = << >>

\* C10: no division of the engine has a zero divisor, for every record,
\* currentTAM = 0, futureTAM = 0 and marketCap = 0 included, and for every
\* record of one of the seven categories each factor score and the total is a
\* finite number.
C10_NoZeroDivisor ==
    Scored =>
        /\ \A i \in 1..Len(divisors(company)) : divisors(company)[i] # 0
        /\ company.futureCategory \in FutureCategory =>
              /\ scores[1].total.kind = "finite"
              /\ scores[1].founderConviction.kind = "finite"
              /\ scores[1].aiDisruption.kind = "finite"
        /\ InTen(scores[1].whiteSpace)
        /\ InTen(scores[1].asymmetry)

C10_Witness ==
    /\ Scored
    /\ company.currentTAM = <<0>>
    /\ company.futureTAM = <<0>>
    /\ company.marketCap = <<0>>

\* The value a numeric field is read as: 0 when it is absent.
Read(field) == IF field = << >> THEN 0 ELSE field[1]

\* 4/3/2/1/0 points (tenths) for a quotient strictly above 100/50/20/10/otherwise.
TierAbove(q) ==
    IF QuotGreater(q, 100, 1) THEN 40
    ELSE IF QuotGreater(q, 50, 1) THEN 30
    ELSE IF QuotGreater(q, 20, 1) THEN 20
    ELSE IF QuotGreater(q, 10, 1) THEN 10
    ELSE 0

\* C13: scoreFounderConviction returns min(10, o + b + f): o is 4/3/2/1/0 for
\* insiderOwnership strictly above 30/20/10/5/otherwise, b is 3/2/1/0 for
\* insiderBuying90d strictly above 1,000,000/100,000/0/otherwise (net selling
\* subtracts nothing), f is 3 when founderActive is true and 0 otherwise;
\* ownership 35, buying 2,000,000, founderActive true gives 10.
C13_FounderConvictionFormula ==
    Scored =>
        LET own == Read(company.insiderOwnership)
            buy == Read(company.insiderBuying90d)
            o == IF own > 30 THEN 40 ELSE IF own > 20 THEN 30
                 ELSE IF own > 10 THEN 20 ELSE IF own > 5 THEN 10 ELSE 0
            b == IF buy > 1000000 THEN 30 ELSE IF buy > 100000 THEN 20
                 ELSE IF buy > 0 THEN 10 ELSE 0
            f == IF company.founderActive = <<TRUE>> THEN 30 ELSE 0
        IN  /\ scores[1].founderConviction = Finite(Min(100, o + b + f))
            /\ (own = 35 /\ buy = 2000000 /\ company.founderActive = <<TRUE>>)
                  => scores[1].founderConviction = Finite(100)

\* The record of the example has been scored.
C13_Witness ==
    /\ Scored
    /\ company.insiderOwnership = <<35>>
    /\ company.insiderBuying90d = <<2000000>>
    /\ company.founderActive = <<TRUE>>
    /\ scores[1].founderConviction = Finite(100)

\* The category table and the enablement bonus as the claim lists them.
BaseOf(cat) ==
    CASE cat \in {"intelligence-infrastructure", "robotics-autonomous",
                  "materials-simulation"} -> 30
      [] cat \in {"synthetic-biology", "advanced-energy",
                  "national-security-space"} -> 20
      [] OTHER -> 0

EnablementOf(cat) ==
    CASE cat \in {"intelligence-infrastructure", "robotics-autonomous",
                  "materials-simulation"} -> 20
      [] cat \in {"synthetic-biology", "advanced-energy"} -> 10
      [] OTHER -> 0

\* C14: for a record of one of the seven categories scoreAIDisruption returns
\* min(10, base + t + e): base from the category table, t 4/3/2/1/0 for the
\* record's TAM multiple strictly above 100/50/20/10/otherwise, e the
\* enablement bonus of the category; intelligence-infrastructure with
\* tamMultiple 120 and currentTAM 0 gives 9.
C14_AIDisruptionFormula ==
    (Scored /\ company.futureCategory \in FutureCategory) =>
        LET cat == company.futureCategory
            t == TierAbove(Quot(OrElse(company.tamMultiple, 1), 1))
        IN  /\ scores[1].aiDisruption =
                   Finite(Min(100, BaseOf(cat) + t + EnablementOf(cat)))
            /\ ( /\ cat = "intelligence-infrastructure"
                 /\ company.tamMultiple = <<120>>
                 /\ company.currentTAM = <<0>> )
                  => scores[1].aiDisruption = Finite(90)

\* The record of the example has been scored.
C14_Witness ==
    /\ Scored
    /\ company.futureCategory = "intelligence-infrastructure"
    /\ company.tamMultiple = <<120>>
    /\ company.currentTAM = <<0>>
    /\ scores[1].aiDisruption = Finite(90)

\* The record's precomputed tamMultiple, when it has one, is the quotient of
\* its two TAM amounts.
TamConsistent(c) ==
    \/ c.tamMultiple = << >>
    \/ Read(c.currentTAM) = 0
    \/ c.tamMultiple[1] * Read(c.currentTAM) = Read(c.futureTAM)

\* C15, as stated: the TAM multiple scoreAIDisruption tiers on is 1 whenever
\* currentTAM is zero or absent (so the tier adds 0 points) and is
\* futureTAM / currentTAM otherwise, whether the record carries it precomputed
\* or it has to be derived.
C15_TamMultipleDerived ==
    (Scored /\ company.futureCategory \in FutureCategory /\ TamConsistent(company)) =>
        LET cat == company.futureCategory
            multiple == IF Read(company.currentTAM) = 0 THEN Quot(1, 1)
                        ELSE Quot(Read(company.futureTAM), Read(company.currentTAM))
        IN  scores[1].aiDisruption =
                Finite(Min(100, BaseOf(cat) + TierAbove(multiple) + EnablementOf(cat)))

\* C16, as stated: scoreWhiteSpace returns min(10, c + r + s): c is 4/3/2/1
\* for a present positive currentTAM below 1B / below 5B / below 10B / at
\* least 10B and 3 when currentTAM is absent or 0; r is 3/2/1/0 for
\* marketCap/futureTAM below 0.001 / 0.01 / 0.05 / otherwise, added only when
\* futureTAM > 0 and marketCap > 0; s is 2/1/0 for a present marketCap below
\* 1B / below 3B / otherwise.
C16_WhiteSpaceFormula ==
    (Scored /\ Read(company.currentTAM) >= 0) =>
        LET ct == Read(company.currentTAM)
            ft == Read(company.futureTAM)
            mc == Read(company.marketCap)
            c == IF ct = 0 THEN 30
                 ELSE IF ct < 1000 THEN 40 ELSE IF ct < 5000 THEN 30
                 ELSE IF ct < 10000 THEN 20 ELSE 10
            r == IF ft > 0 /\ mc > 0
                 THEN IF 1000 * mc < ft THEN 30 ELSE IF 100 * mc < ft THEN 20
                      ELSE IF 100 * mc < 5 * ft THEN 10 ELSE 0
                 ELSE 0
            s == IF company.marketCap = << >> THEN 0
                 ELSE IF mc < 1000 THEN 20 ELSE IF mc < 3000 THEN 10 ELSE 0
        IN  scores[1].whiteSpace = Finite(Min(100, c + r + s))

\* C16, amended: as stated, except that c is 3 whenever currentTAM is absent,
\* 0 or negative, and s is 2/1/0 only for a marketCap that is present and
\* strictly positive (below 1B / below 3B / otherwise): a marketCap that is
\* absent, 0 or negative adds nothing.  currentTAM 500M, futureTAM 50B,
\* marketCap 200M gives 8.
C16_WhiteSpaceFormulaPositiveCap ==
    Scored =>
        LET ct == Read(company.currentTAM)
            ft == Read(company.futureTAM)
            mc == Read(company.marketCap)
            c == IF ct <= 0 THEN 30
                 ELSE IF ct < 1000 THEN 40 ELSE IF ct < 5000 THEN 30
                 ELSE IF ct < 10000 THEN 20 ELSE 10
            r == IF ft > 0 /\ mc > 0
                 THEN IF 1000 * mc < ft THEN 30 ELSE IF 100 * mc < ft THEN 20
                      ELSE IF 100 * mc < 5 * ft THEN 10 ELSE 0
                 ELSE 0
            s == IF mc <= 0 THEN 0
                 ELSE IF mc < 1000 THEN 20 ELSE IF mc < 3000 THEN 10 ELSE 0
        IN  /\ scores[1].whiteSpace = Finite(Min(100, c + r + s))
            /\ (company.currentTAM = <<500>> /\ ft = 50000 /\ mc = 200)
                  => scores[1].whiteSpace = Finite(80)

\* A record whose marketCap is present and 0, with both TAM amounts positive,
\* has been scored: it gets the current-TAM points alone.
C16_Witness ==
    /\ Scored
    /\ company.marketCap = <<0>>
    /\ company.currentTAM = <<500>>
    /\ company.futureTAM = <<50000>>
    /\ scores[1].whiteSpace = Finite(40)

\* The points (tenths) a list of steps adds, and the factor strings it pushes.
PointsOf(steps) ==
    LET RECURSIVE Sum(_)
        Sum(st) == IF st = << >> THEN 0 ELSE Head(st).pts + Sum(Tail(st))
    IN  Sum(steps)

FactorsOf(steps) ==
    LET RECURSIVE Cat(_)
        Cat(st) == IF st = << >> THEN << >> ELSE Head(st).fac \o Cat(Tail(st))
    IN  Cat(steps)

\* C17: the potential-multiple bonus of scoreAsymmetry is 4/3/2/1/0 points for
\* (futureTAM x 0.10) / marketCap strictly above 100/50/20/10/otherwise when
\* futureTAM > 0 and marketCap > 0, and 0 when either is absent or not
\* positive.  The bonus is what the score gains over the other four rules.
C17_PotentialMultipleBonus ==
    Scored =>
        LET ft == Read(company.futureTAM)
            mc == Read(company.marketCap)
            others == PointsOf(<<cashStep(company), debtStep(company),
                                 marginStep(company), growthStep(company)>>)
            bonus == IF ft > 0 /\ mc > 0 THEN TierAbove(Quot(ft, 10 * mc)) ELSE 0
        IN  scores[1].asymmetry = Finite(others + bonus)

\* A record whose potential multiple is exactly 100 (50B x 0.10 / 50M) has
\* been scored: it gets the 3 points of the tier above 50.
C17_Witness ==
    /\ Scored
    /\ company.futureTAM = <<50000>>
    /\ company.marketCap = <<50>>
    /\ company.cashPosition = << >>
    /\ scores[1].asymmetry = Finite(40)

\* C18, as stated: the cash bonus of scoreAsymmetry is 2 exactly when
\* cashPosition > marketCap x 0.2, otherwise 1 exactly when
\* cashPosition > marketCap x 0.1, otherwise 0, for every cashPosition and
\* marketCap, marketCap absent or 0 included.
C18_CashBonus ==
    Scored =>
        LET cash == Read(company.cashPosition)
            mc == Read(company.marketCap)
            others == PointsOf(<<potentialStep(company), debtStep(company),
                                 marginStep(company), growthStep(company)>>)
            bonus == IF 5 * cash > mc THEN 20 ELSE IF 10 * cash > mc THEN 10 ELSE 0
        IN  scores[1].asymmetry = Finite(others + bonus)

\* C19: for a record that carries debtToEquity, scoreAsymmetry adds 1 point
\* when it is below 0.3, adds nothing and puts "Warning: High debt levels" in
\* the rationale when it is above 1.5, and adds nothing and no text when it is
\* in [0.3, 1.5]; this is so whatever the cash rule added.
C19_DebtRule ==
    (Scored /\ company.debtToEquity # << >>) =>
        LET d == company.debtToEquity[1]
            before == <<potentialStep(company), cashStep(company)>>
            after == <<marginStep(company), growthStep(company)>>
            others == PointsOf(before) + PointsOf(after)
            rationaleWith(text) ==
                LET factors == FactorsOf(before) \o text \o FactorsOf(after)
                IN  IF Len(factors) > 0 THEN join(factors)
                    ELSE "Risk/reward profile unclear"
        IN  /\ d < 30 => scores[1].asymmetry = Finite(others + 10)
            /\ d > 150 =>
                  /\ scores[1].asymmetry = Finite(others)
                  /\ scores[1].rationale.asymmetry =
                         rationaleWith(<<"Warning: High debt levels">>)
            /\ (d >= 30 /\ d <= 150) =>
                  /\ scores[1].asymmetry = Finite(others)
                  /\ scores[1].rationale.asymmetry = rationaleWith(<< >>)

\* A record with a strong cash position and debtToEquity 1.51 has been scored.
C19_Witness ==
    /\ Scored
    /\ company.debtToEquity = <<151>>
    /\ company.cashPosition = <<41>>
    /\ company.marketCap = <<200>>
    /\ company.grossMargin = << >>
    /\ company.revenueGrowth = << >>
    /\ scores[1].asymmetry = Finite(20)

\* C20, as stated: the quality bonus of scoreAsymmetry uses fraction-scale
\* thresholds: grossMargin > 0.6 adds 1; revenueGrowth > 0.30 adds 1,
\* otherwise revenueGrowth > 0.15 adds 0.5; grossMargin 0.7 with
\* revenueGrowth 0.4 receives 2 quality points.
C20_QualityBonusFractionScale ==
    Scored =>
        LET gm == Read(company.grossMargin)
            rg == Read(company.revenueGrowth)
            others == PointsOf(<<potentialStep(company), cashStep(company),
                                 debtStep(company)>>)
            margin == IF gm > 60 THEN 10 ELSE 0
            growth == IF rg > 30 THEN 10 ELSE IF rg > 15 THEN 5 ELSE 0
        IN  scores[1].asymmetry = Finite(others + margin + growth)

\* The steps each scorer takes for a record, in evaluation order.
FounderSteps(c) == <<ownershipStep(c), buyingStep(c), founderStep(c)>>
AISteps(c) == <<categoryStep(c), tamMultipleStep(c), enablementStep(c)>>
WhiteSpaceSteps(c) == <<currentTAMStep(c), captureStep(c), smallCapStep(c)>>
AsymmetrySteps(c) ==
    <<potentialStep(c), cashStep(c), debtStep(c), marginStep(c), growthStep(c)>>

\* C21: for every record of one of the seven categories the points each
\* scorer has accumulated before Math.min(score, 10) are at most 10
\* (founderConviction at most 10, asymmetry at most 9), so the clamp never
\* changes a score: each returned score is the raw sum.
C21_ClampNeverBinds ==
    (Scored /\ company.futureCategory \in FutureCategory) =>
        /\ PointsOf(FounderSteps(company)) <= 100
        /\ PointsOf(AISteps(company)) <= 100
        /\ PointsOf(WhiteSpaceSteps(company)) <= 100
        /\ PointsOf(AsymmetrySteps(company)) <= 90
        /\ scores[1].founderConviction = Finite(PointsOf(FounderSteps(company)))
        /\ scores[1].aiDisruption = Finite(PointsOf(AISteps(company)))
        /\ scores[1].whiteSpace = Finite(PointsOf(WhiteSpaceSteps(company)))
        /\ scores[1].asymmetry = Finite(PointsOf(AsymmetrySteps(company)))

\* A record that takes the top branch of all three founder rules has been
\* scored: its raw sum is exactly 10.
C21_Witness ==
    /\ Scored
    /\ company.insiderOwnership = <<100>>
    /\ company.insiderBuying90d = <<1000001>>
    /\ company.founderActive = <<TRUE>>
    /\ PointsOf(FounderSteps(company)) = 100

\* A step contributed when it added points or pushed a warning.
Contributed(steps) ==
    \E i \in 1..Len(steps) :
        \/ steps[i].pts > 0
        \/ steps[i].fac \in { <<"Warning: Insider selling detected">>,
                              <<"Warning: High debt levels">> }

\* C22, as stated: for each scorer and every record the rationale is the
\* descriptions of the conditions that triggered, joined in the scorer's
\* evaluation order, and it is the scorer's sentinel string if and only if no
\* condition contributed points or a warning.
C22_RationaleSentinel ==
    Scored =>
        LET r == scores[1].rationale
            Holds(rationale, steps, sentinel) ==
                /\ (rationale = sentinel) <=> ~ Contributed(steps)
                /\ (rationale # sentinel) => rationale = join(FactorsOf(steps))
        IN  /\ Holds(r.founderConviction, FounderSteps(company), "Insufficient data")
            /\ Holds(r.aiDisruption, AISteps(company), "Limited AI disruption potential")
            /\ Holds(r.whiteSpace, WhiteSpaceSteps(company), "Market positioning unclear")
            /\ Holds(r.asymmetry, AsymmetrySteps(company), "Risk/reward profile unclear")

-----------------------------------------------------------------------------
(* Claims about the weight table, checked under SpecWeights *)

\* C4, as stated: for any non-negative weights the total is a number in
\* [0, 10], and when all four weights are 0 nothing is divided by zero and the
\* total is 0.
C4_ZeroWeightsTotalZero ==
    Scored =>
        /\ scores[1].total.kind = "finite"
        /\ scores[1].total.tenths \in 0..100
        /\ (weightSum(SCORE_WEIGHTS) = 0 =>
              /\ scores[1].total.tenths = 0
              /\ \A i \in 1..Len(divisors(company)) : divisors(company)[i] # 0)

-----------------------------------------------------------------------------
(* Claims about the ranked list, checked under SpecRank *)

Ranked == ranked # << >>

\* A record's own fields: everything but the attached scores.
SourceFields(c) == [ c EXCEPT !.scores = << >> ]

Occurrences(list, c) ==
    Cardinality({ i \in 1..Len(list) : SourceFields(list[i]) = SourceFields(c) })

\* Lexicographic order of two tickers, by character code.
TickerCodes(t) ==
    CASE t = "AAA"  -> <<65, 65, 65>>
      [] t = "BIG"  -> <<66, 73, 71>>
      [] t = "LOW"  -> <<76, 79, 87>>
      [] t = "MMM"  -> <<77, 77, 77>>
      [] t = "NVDA" -> <<78, 86, 68, 65>>
      [] t = "OLD"  -> <<79, 76, 68>>
      [] t = "RBT"  -> <<82, 66, 84>>
      [] t = "ZZZ"  -> <<90, 90, 90>>

RECURSIVE LexLeq(_, _)
LexLeq(a, b) ==
    IF a = << >> THEN TRUE
    ELSE IF b = << >> THEN FALSE
    ELSE IF Head(a) # Head(b) THEN Head(a) < Head(b)
    ELSE LexLeq(Tail(a), Tail(b))

TickerLeq(s, t) == LexLeq(TickerCodes(s), TickerCodes(t))

\* C5, as stated: every adjacent pair (a, b) of the ranked list has
\* a.total > b.total, or a.total = b.total and a.ticker <= b.ticker.
C5_SortedWithTickerTieBreak ==
    Ranked =>
        \A i \in 1..(Len(ranked[1]) - 1) :
            LET a == ranked[1][i]
                b == ranked[1][i + 1]
            IN  \/ a.scores[1].total.tenths > b.scores[1].total.tenths
                \/ /\ a.scores[1].total.tenths = b.scores[1].total.tenths
                   /\ TickerLeq(a.ticker, b.ticker)

\* C6: every record of the output has the ticker and source fields of a record
\* of the input, and appears in the output no more often than in the input.
C6_OutputFromInput ==
    Ranked =>
        \A i \in 1..Len(ranked[1]) :
            /\ \E j \in 1..Len(companies) :
                   SourceFields(ranked[1][i]) = SourceFields(companies[j])
            /\ Occurrences(ranked[1], ranked[1][i]) <= Occurrences(companies, ranked[1][i])

\* The same record was supplied twice and the list has been ranked.
C6_Witness ==
    /\ Ranked
    /\ Len(companies) >= 3
    /\ companies[1] = companies[3]
    /\ companies[1] # companies[2]

\* C11: every record of the output carries the scores calculateAsymmetryScore
\* gives for that record's own source fields: the same scores the record gets
\* when ranked alone, whatever else is in the list, wherever it stood in the
\* list, and whatever scores value was attached to it on input.
C11_ScoresFromOwnFields ==
    Ranked =>
        /\ \A i \in 1..Len(ranked[1]) :
              LET r == ranked[1][i]
              IN  /\ r.scores = <<calculateAsymmetryScore(SourceFields(r))>>
                  /\ r.scores = rankCompanies(<<SourceFields(r)>>)[1].scores
        /\ \A j \in 1..Len(companies) :
              \E i \in 1..Len(ranked[1]) :
                  /\ SourceFields(ranked[1][i]) = SourceFields(companies[j])
                  /\ ranked[1][i].scores = rankCompanies(<<companies[j]>>)[1].scores

\* A list holding a record with stale scores attached, behind a different
\* record, has been ranked.
C11_Witness ==
    /\ Ranked
    /\ Len(companies) >= 2
    /\ companies[1].scores = << >>
    /\ companies[2].scores = <<StaleScores>>
    /\ SourceFields(companies[1]) # SourceFields(companies[2])

\* C12: the step that ranks a list leaves the input array as it was (same
\* length, same order, every record's fields and scores field as before) and
\* leaves the criteria as they were; what it returns is held apart from the
\* input.
C12_InputsUnchanged ==
    [][ (ranked = << >> /\ ranked' # << >>) =>
            /\ companies' = companies
            /\ criteria' = criteria
            /\ company' = company ]_vars

\* A list whose order the ranking changes, with no scores on its first
\* record, has been ranked, and the input still stands in its own order.
C12_Witness ==
    /\ Ranked
    /\ Len(companies) >= 2
    /\ companies[1].scores = << >>
    /\ ranked[1][1].ticker # companies[1].ticker
    /\ ranked[1][1].scores # << >>

\* The criteria in force: a field the criteria leave absent takes its
\* documented default.
InForce(field, default) == IF field = << >> THEN default ELSE field[1]

PassesMarketCap(c) ==
    c.marketCap = << >> \/ c.marketCap[1] <= InForce(criteria.maxMarketCap, 10000)

PassesOwnership(c) ==
    OrElse(c.insiderOwnership, 0) >= InForce(criteria.minInsiderOwnership, 5)

PassesTamMultiple(c) ==
    OrElse(c.tamMultiple, 0) >= InForce(criteria.minTamMultiple, 10)

PassesCategory(c) ==
    \/ InForce(criteria.categories, << >>) = << >>
    \/ includes(InForce(criteria.categories, << >>), c.futureCategory)

PassesExclusion(c) ==
    ~ includes(InForce(criteria.excludeTickers, EXCLUDED_TICKERS), c.ticker)

PassesScore(c) ==
    LET total == calculateAsymmetryScore(c).total
    IN  total.kind = "finite" /\ total.tenths >= InForce(criteria.minAsymmetryScore, 60)

InOutput(c) ==
    \E i \in 1..Len(ranked[1]) : SourceFields(ranked[1][i]) = SourceFields(c)

\* C7, as stated: the output holds exactly the input records that satisfy all
\* six screening conditions.
C7_OutputIsFiltered ==
    Ranked =>
        \A j \in 1..Len(companies) :
            InOutput(companies[j]) <=>
                /\ PassesMarketCap(companies[j])
                /\ PassesOwnership(companies[j])
                /\ PassesTamMultiple(companies[j])
                /\ PassesCategory(companies[j])
                /\ PassesExclusion(companies[j])
                /\ PassesScore(companies[j])

\* C8: with an empty or absent categories list no record is removed because of
\* its futureCategory: whatever the other criteria are set to, every input
\* record that satisfies the other five conditions is in the output.
C8_EmptyCategoriesKeepAll ==
    (Ranked /\ InForce(criteria.categories, << >>) = << >>) =>
        \A j \in 1..Len(companies) :
            ( /\ PassesMarketCap(companies[j])
              /\ PassesOwnership(companies[j])
              /\ PassesTamMultiple(companies[j])
              /\ PassesExclusion(companies[j])
              /\ PassesScore(companies[j]) )
            => InOutput(companies[j])

\* A list with records of two categories, both passing the other conditions,
\* has been ranked while the categories list is present and empty.
C8_Witness ==
    /\ Ranked
    /\ criteria.categories = << << >> >>
    /\ criteria.maxMarketCap = <<10000>>
    /\ \E i, j \in 1..Len(companies) :
          /\ companies[i].futureCategory # companies[j].futureCategory
          /\ PassesScore(companies[i]) /\ PassesOwnership(companies[i])
          /\ PassesScore(companies[j]) /\ PassesOwnership(companies[j])
          /\ PassesMarketCap(companies[j]) /\ PassesMarketCap(companies[i])

-----------------------------------------------------------------------------
(* Claims about FilterPanel, checked under SpecPanel *)

\* C23, as stated: for each of maxMarketCap, minInsiderOwnership,
\* minTamMultiple and minAsymmetryScore the value the panel shows and feeds to
\* its slider is the criteria's own value whenever the field is set (0
\* included) and the documented default only when the field is absent.
C23_ShownValueIsCriteriaValue ==
    /\ shownMaxMarketCap = InForce(criteria.maxMarketCap, 10000)
    /\ shownMinInsiderOwnership = InForce(criteria.minInsiderOwnership, 5)
    /\ shownMinTamMultiple = InForce(criteria.minTamMultiple, 10)
    /\ shownMinAsymmetryScore = InForce(criteria.minAsymmetryScore, 60)

\* C30, as stated: a click on a category button flips that category's
\* displayed selection and leaves every other button's displayed selection as
\* it was, from every criteria state, categories absent or empty included.
C30_ToggleFlipsOnlyThatCategory ==
    [][ \A category \in ToggledCategories :
            handleCategoryToggle(category) =>
                /\ isSelected(criteria', category) # isSelected(criteria, category)
                /\ \A key \in ButtonCategories \ {category} :
                       isSelected(criteria', key) = isSelected(criteria, key) ]_vars

-----------------------------------------------------------------------------
(* Claims about sec-edgar.ts, checked under SpecCik *)

\* C24, as stated: whatever the interleaving of getCIK calls, several started
\* while the cache is still null included, at most one fetch of the ticker
\* list is issued.
C24_AtMostOneFetch == fetchCount <= 1

\* The cache holds every entry of the loaded list.
Populated(cache) ==
    /\ cache # << >>
    /\ cache[1] = buildMap(EmptyMap, SecTickerList)

\* C25, as stated: once a successful load has populated the cache it never
\* loses an entry: after every later step, whatever the other calls and loads
\* in flight do, getCIK still finds the CIK of every ticker of the list.
C25_CacheNeverLosesEntries ==
    [][ Populated(tickerCache) =>
            /\ Populated(tickerCache')
            /\ \A i \in 1..Len(SecTickerList) :
                   lookup(tickerCache', SecTickerList[i].ticker) # "null" ]_vars

\* C26, as stated: a getCIK call whose load fails resolves to null, the failed
\* load leaves the cache an empty non-null map, and every getCIK call started
\* after a load has failed returns null without issuing a fetch.
C26_FailedLoadGivesNull ==
    /\ [](\A c \in CallIds :
              (cikCalls[c].load = "fail" /\ cikCalls[c].pc = "done") =>
                  cikCalls[c].result = <<"null">>)
    /\ [][ \A c \in CallIds :
              /\ (cikCalls[c].load # "fail" /\ cikCalls'[c].load = "fail")
                    => tickerCache' = <<EmptyMap>>
              /\ ( /\ \E d \in CallIds : cikCalls[d].load = "fail"
                   /\ cikCalls[c].pc = "idle"
                   /\ cikCalls'[c].pc # "idle" )
                    => /\ cikCalls'[c].pc = "done"
                       /\ cikCalls'[c].result = <<"null">>
                       /\ fetchCount' = fetchCount ]_vars

-----------------------------------------------------------------------------
(* Claims about getQuotes, checked under SpecQuotes and FairSpecQuotes *)

\* The positions of the list whose request has been issued, is in flight, has
\* settled.
Issued == { p \in 1..Len(tickers) : requests[tickers[p]] # "none" }
InFlight == { p \in 1..Len(tickers) : requests[tickers[p]] = "inflight" }
Settled == { p \in 1..Len(tickers) : requests[tickers[p]] \in {"quote", "null"} }

\* The batch a position belongs to when the list is cut 5 at a time, in order.
BatchOf(p) == (p - 1) \div 5

\* C27: at most 5 getQuote requests are in flight at any moment; no request
\* of a later batch is issued before every request of each earlier batch has
\* settled; and the batches are the list cut in order, 5 tickers at a time
\* (the requests issued so far are a prefix of the list made of whole
\* batches, and those in flight all belong to one batch).
C27_BatchesOfFive ==
    /\ Cardinality(InFlight) <= 5
    /\ \A p \in Issued : \A q \in 1..Len(tickers) :
           BatchOf(q) < BatchOf(p) => q \in Settled
    /\ \A p \in Issued : \A q \in 1..Len(tickers) :
           BatchOf(q) = BatchOf(p) => q \in Issued
    /\ \A p, q \in InFlight : BatchOf(p) = BatchOf(q)

\* The second batch of a seven-ticker list is in flight, the first settled.
C27_Witness ==
    /\ Len(tickers) = 7
    /\ quotePc = "awaiting"
    /\ InFlight = {6, 7}
    /\ Settled = 1..5

\* C28: for every list of distinct tickers getQuotes eventually resolves and
\* never rejects; it issues exactly one getQuote request per ticker; and the
\* key set of the returned map is exactly the tickers whose getQuote gave a
\* non-null quote, whatever the other tickers' requests gave.
C28_ResolvesWithQuotedTickers ==
    /\ <>(quotePc = "resolved")
    /\ [](quotePc \in {"idle", "awaiting", "delay", "resolved"})
    /\ [](\A t \in members(tickers) : requestCount[t] <= 1)
    /\ [](quotePc = "resolved" =>
             /\ \A t \in members(tickers) : requestCount[t] = 1
             /\ results = { t \in members(tickers) : requests[t] = "quote" })

\* A seven-ticker call has resolved with a null quote in each batch and the
\* other tickers' quotes in the map.
C28_Witness ==
    /\ Len(tickers) = 7
    /\ quotePc = "resolved"
    /\ requests[tickers[2]] = "null"
    /\ requests[tickers[6]] = "null"
    /\ results = {tickers[1], tickers[3], tickers[4], tickers[5], tickers[7]}

-----------------------------------------------------------------------------
(* CompanyTable *)

SortFields ==
    { "ticker", "marketCap", "insiderOwnership", "tamMultiple", "scoreTotal",
      "priceChange30d" }

\* a.localeCompare(b) on upper-case tickers: negative, zero or positive.
localeCompare(a, b) ==
    IF a = b THEN 0 ELSE IF TickerLeq(a, b) THEN -1 ELSE 1

\* The number the switch picks for a row under a numeric sort field.
sortValue(c) ==
    CASE sortField = "marketCap"        -> OrElse(c.marketCap, 0)
      [] sortField = "insiderOwnership" -> OrElse(c.insiderOwnership, 0)
      [] sortField = "tamMultiple"      -> OrElse(c.tamMultiple, 0)
      [] sortField = "scoreTotal"       -> totalOrZero(c)
      [] sortField = "priceChange30d"   -> OrElse(c.priceChange30d, 0)
      [] OTHER                          -> 0

\* The comparator handed to sort, under the current sortField and
\* sortDirection.
tableCompare(a, b) ==
    IF sortField = "ticker"
    THEN IF sortDirection = "asc" THEN localeCompare(a.ticker, b.ticker)
         ELSE localeCompare(b.ticker, a.ticker)
    ELSE IF sortDirection = "asc" THEN sortValue(a) - sortValue(b)
         ELSE sortValue(b) - sortValue(a)

RECURSIVE insertRow(_, _)
insertRow(sorted, x) ==
    IF sorted = << >> THEN <<x>>
    ELSE IF tableCompare(x, Head(sorted)) < 0 THEN <<x>> \o sorted
    ELSE <<Head(sorted)>> \o insertRow(Tail(sorted), x)

RECURSIVE sortRows(_)
sortRows(arr) ==
    IF arr = << >> THEN << >>
    ELSE insertRow(sortRows(SubSeq(arr, 1, Len(arr) - 1)), arr[Len(arr)])

\* [...companies].sort(comparator): the rows shown, a sorted copy of the prop.
sortedCompanies == sortRows(companies)

\* handleSort that keeps the direction when another header is clicked.
handleSortKeepDirection(field) ==
    /\ IF sortField = field
       THEN /\ sortDirection' = IF sortDirection = "asc" THEN "desc" ELSE "asc"
            /\ UNCHANGED sortField
       ELSE /\ sortField' = field
            /\ UNCHANGED sortDirection
    /\ UNCHANGED <<engineVars, cikVars, quoteVars>>

handleSort(field) ==
    /\ IF sortField = field
       THEN /\ sortDirection' = IF sortDirection = "asc" THEN "desc" ELSE "asc"
            /\ UNCHANGED sortField
       ELSE /\ sortField' = field
            /\ sortDirection' = "desc"
    /\ UNCHANGED <<engineVars, cikVars, quoteVars>>

\* The rows a parent may pass: ranked records and one never scored.
TableRows ==
    { withScores(Strong("AAA")),
      withScores([ Strong("NVDA") EXCEPT !.founderActive = << >>,
                                         !.priceChange30d = <<-12>> ]),
      withScores([ Company("MMM", "synthetic-biology") EXCEPT
                     !.insiderOwnership = <<11>>, !.tamMultiple = <<21>>,
                     !.marketCap = <<2500>>, !.priceChange30d = <<30>> ]),
      [ Strong("LOW") EXCEPT !.insiderOwnership = <<2>>, !.tamMultiple = <<5>> ] }

\* The longest companies prop.
MaxRows == 3

InitTable ==
    /\ company = Company("TEST", "other")
    /\ scores = << >>
    /\ outcome = "pending"
    /\ SCORE_WEIGHTS = DefaultWeights
    /\ companies \in UNION { [ 1..n -> TableRows ] : n \in 0..MaxRows }
    /\ ranked = << >>
    /\ criteria = NoCriteria
    /\ CikIdle /\ QuotesIdle /\ TableMounted

NextTable == \E field \in SortFields : handleSort(field)

SpecTable == InitTable /\ [][NextTable]_vars

-----------------------------------------------------------------------------
(* Claims about CompanyTable, checked under SpecTable *)

\* The two lists hold the same records the same number of times.
IsPermutation(a, b) ==
    /\ Len(a) = Len(b)
    /\ \A i \in 1..Len(a) :
           Cardinality({ k \in 1..Len(a) : a[k] = a[i] })
             = Cardinality({ k \in 1..Len(b) : b[k] = a[i] })

\* C29: the sort state starts at (scoreTotal, desc); every click is a click on
\* some header that either is the current sort field, and then flips the
\* direction and keeps the field, or is another field, and then selects it
\* with direction desc; no click reorders the companies prop; and the rows
\* shown are always a permutation of the companies prop.
C29_SortStateAndRows ==
    /\ (sortField = "scoreTotal" /\ sortDirection = "desc")
    /\ [][ /\ companies' = companies
           /\ \E field \in SortFields :
                 IF field = sortField
                 THEN /\ sortField' = sortField
                      /\ sortDirection' # sortDirection
                      /\ sortDirection' \in {"asc", "desc"}
                 ELSE /\ sortField' = field
                      /\ sortDirection' = "desc" ]_vars
    /\ [](IsPermutation(sortedCompanies, companies))

\* After clicks that left the table sorted by ticker ascending, three rows
\* are shown in another order than the prop holds them.
C29_Witness ==
    /\ sortField = "ticker"
    /\ sortDirection = "asc"
    /\ Len(companies) = 3
    /\ sortedCompanies # companies
    /\ sortedCompanies[1].ticker = "AAA"

=============================================================================
